---- MODULE Spec2Model ----
(***************************************************************************)
(* The news ETL scripts of de-proj1: src/news-etl/etl.py (configuration    *)
(* check, then fetch_and_store_articles) and src/de-proj1.py (the same     *)
(* function called under the __main__ guard, followed by the top-level     *)
(* Extract and Transform + Load cells).                                    *)
(*                                                                         *)
(* Python values are tagged tuples: None, Str(s), List(elems), Dict.       *)
(* A raw article is a function from the keys it has to values.             *)
(* The articles table is a bag of rows (rows with a NULL id may repeat).   *)
(***************************************************************************)
EXTENDS Bags, FiniteSets, Integers, Sequences, TLC

VARIABLES
    script,         \* which script the current process executes
    stage,          \* "fn": fetch_and_store_articles(); "cells": top-level cells
    pc,             \* position of the process
    response_data,  \* the response returned by api.news_api
    articles_to_store, \* the results sequence of the response
    inserted_count, \* articles upserted so far in this pass
    item,           \* loop variable: the raw article being processed
    article,        \* the dict built from item (or the exception raised building it)
    table,          \* committed rows of articles in newsdata.db
    tableExists,    \* whether the articles table exists in newsdata.db
    work,           \* rows as seen by the open connection (uncommitted included)
    txn,            \* transaction of the connection: none, open, committed, rolledback
    log,            \* lines printed since the current fetch began
    exc,            \* uncaught exception that ended the process, or "none"
    errAt,          \* -1: no sqlite3.Error; 0: at connect/create; k: at the k-th upsert;
                    \* Len(articles_to_store) + 1: at the verification select or the commit
    fetches,        \* api.news_api calls issued by the current process
    sessions,       \* sqlite3.connect calls issued by the current process
    runs,           \* script executions started so far
    table0,         \* the committed rows when the current fetch began
    latest,         \* history: id -> row of the last committed upsert of that id
    nullCommitted   \* history: number of committed upserts with a NULL id

vars == <<script, stage, pc, response_data, articles_to_store, inserted_count, item, article, table, tableExists,
          work, txn, log, exc, errAt, fetches, sessions, runs, table0, latest,
          nullCommitted>>

MaxRuns == 2
MaxBatch == 2

(***************************************************************************)
(* Python values                                                           *)
(***************************************************************************)
None == <<"null">>
Str(s) == <<"str", s>>
List(elems) == <<"list">> \o elems
Dict == <<"dict">>
Absent == <<"absent">>

IsList(v) == v[1] = "list"
IsStr(v) == v[1] = "str"
Elems(v) == Tail(v)

\* dict.get(key): the value, or None when the key is missing
Get(d, key) == IF key \in DOMAIN d THEN d[key] ELSE None

\* the mapping that holds the keys of f whose value is not Absent
Mapping(f) == [k \in {k \in DOMAIN f : f[k] # Absent} |-> f[k]]

(***************************************************************************)
(* Normalisation: etl.py lines 55-67                                       *)
(***************************************************************************)
\* sep.join(strs) for a sequence of strings
RECURSIVE Join(_, _)
Join(strs, sep) ==
    IF strs = <<>> THEN ""
    ELSE IF Len(strs) = 1 THEN strs[1]
    ELSE strs[1] \o sep \o Join(Tail(strs), sep)

\* ", ".join(creator) raises TypeError when an element is not a str
JoinRaises(creator) ==
    IsList(creator) /\ \E i \in 1..Len(Elems(creator)) : ~IsStr(Elems(creator)[i])

NormalizeRaises(raw) == JoinRaises(Get(raw, "creator"))

AuthorKeepsList(creator) == creator

Author(creator) ==
    IF IsList(creator)
    THEN Str(Join([i \in 1..Len(Elems(creator)) |-> Elems(creator)[i][2]], ", "))
    ELSE creator

Normalize(raw) ==
    [id           |-> Get(raw, "article_id"),
     title        |-> Get(raw, "title"),
     author       |-> Author(Get(raw, "creator")),
     body         |-> Get(raw, "content"),
     source       |-> Get(raw, "source_name"),
     published_at |-> Get(raw, "pubDate")]

Unset == <<"unset">>
NoItem == [k \in {} |-> None]

NormalizeResult(raw) ==
    IF NormalizeRaises(raw) THEN <<"TypeError">> ELSE <<"ok", Normalize(raw)>>

(***************************************************************************)
(* Storage: sqlite3                                                        *)
(***************************************************************************)
Columns == {"id", "title", "author", "body", "source", "published_at"}

\* sqlite3 binds None and str; a list or a dict parameter raises sqlite3.Error
Bindable(v) == v[1] \in {"null", "str"}
BindFails(row) == \E c \in Columns : ~Bindable(row[c])

Rows(t) == BagToSet(t)
Conflicts(t, row) == {r \in Rows(t) : row.id # None /\ r.id = row.id}

UpsertIgnore(t, row) ==
    IF Conflicts(t, row) # {} THEN t ELSE t (+) SetToBag({row})

UpsertDropsOthers(t, row) == SetToBag({row})

UpsertNullReplaces(t, row) ==
    [r \in {x \in Rows(t) : x.id # row.id} |-> t[r]] (+) SetToBag({row})

\* INSERT OR REPLACE on id TEXT PRIMARY KEY: the rows with the same non-NULL id
\* are deleted, the new row is inserted; NULL ids never conflict
Upsert(t, row) ==
    [r \in Rows(t) \ Conflicts(t, row) |-> t[r]] (+) SetToBag({row})

ExitTxnLeavesOpen(t, raised, commitFails) ==
    IF t = "open" /\ ~raised /\ ~commitFails THEN "committed" ELSE t

ExitTxnAlwaysCommits(t, raised, commitFails) == IF t = "open" THEN "committed" ELSE t

\* Connection.__exit__: roll back when the block raised; COMMIT when it ended
\* normally, and ROLLBACK (re-raising the sqlite3.Error) when that COMMIT
\* fails; nothing is issued when no transaction was begun
ExitTxn(t, raised, commitFails) ==
    IF t = "open"
    THEN (IF raised \/ commitFails THEN "rolledback" ELSE "committed")
    ELSE t

\* the committed rows once the connection block has been left
Durable(committed, seen, t) == IF t = "committed" THEN seen ELSE committed

NullRows(t) == BagCardinality([r \in {x \in Rows(t) : x.id = None} |-> t[r]])

(***************************************************************************)
(* Inputs: what the API can return                                         *)
(***************************************************************************)
P1 == [article_id |-> Str("a1"), title |-> Str("T"),
       creator |-> List(<<Str("X"), Str("Y")>>), content |-> Str("body"),
       source_name |-> Str("S"), pubDate |-> Str("2024-01-01")]
P2 == [article_id |-> Str("a1"), title |-> Str("T2"), creator |-> Str("Z"),
       content |-> None, source_name |-> Str("S"), pubDate |-> Str("2024-01-02")]
P3 == [article_id |-> Str("a2"), title |-> Str("U")]
P4 == [title |-> Str("N"), creator |-> None]
P5 == [article_id |-> Str("a2"), title |-> Dict]
P6 == [article_id |-> Str("a3"), creator |-> List(<<None>>)]

RawPool == {P1, P2, P3, P4, P5, P6}

RECURSIVE SeqsUpTo(_, _)
SeqsUpTo(S, n) ==
    IF n = 0 THEN {<<>>}
    ELSE LET shorter == SeqsUpTo(S, n - 1)
         IN shorter \cup {Append(q, x) : q \in {p \in shorter : Len(p) = n - 1}, x \in S}

Batches == SeqsUpTo(RawPool, MaxBatch)

Unbound == [tag |-> "unbound", status |-> None, results |-> [t |-> "absent", items |-> <<>>]]
NoneResponse == [tag |-> "none", status |-> None, results |-> [t |-> "absent", items |-> <<>>]]
DictResponse(st, res) == [tag |-> "dict", status |-> st, results |-> res]

Responses ==
    {NoneResponse}
    \cup {DictResponse(Str("error"), [t |-> "absent", items |-> <<>>]),
          DictResponse(Str("error"), [t |-> "list", items |-> <<P1>>]),
          DictResponse(None, [t |-> "list", items |-> <<P1>>]),
          DictResponse(Str("success"), [t |-> "absent", items |-> <<>>]),
          DictResponse(Str("success"), [t |-> "none", items |-> <<>>])}
    \cup {DictResponse(Str("success"), [t |-> "list", items |-> b]) : b \in Batches}

IsSuccessTruthy(r) == r.tag = "dict"

\* `response_data and response_data.get("status") == "success"`
IsSuccess(r) == r.tag = "dict" /\ r.status = Str("success")

\* response_data.get("results", [])
ResultsOf(r) == IF r.results.t = "absent" THEN [t |-> "list", items |-> <<>>] ELSE r.results

\* `not articles_to_store`
IsEmpty(res) == res.t = "none" \/ res.items = <<>>

Scripts == {"etl", "deproj"}

(***************************************************************************)
(* Initial state: no process has run, newsdata.db does not exist           *)
(***************************************************************************)
Init ==
    /\ script = "none"
    /\ stage = "fn"
    /\ pc = "IDLE"
    /\ response_data = Unbound
    /\ articles_to_store = <<>>
    /\ inserted_count = 0
    /\ item = NoItem
    /\ article = Unset
    /\ table = EmptyBag
    /\ tableExists = FALSE
    /\ work = EmptyBag
    /\ txn = "none"
    /\ log = <<>>
    /\ exc = "none"
    /\ errAt = -1
    /\ fetches = 0
    /\ sessions = 0
    /\ runs = 0
    /\ table0 = EmptyBag
    /\ latest = [i \in {} |-> None]
    /\ nullCommitted = 0

\* the locals of one pass of the fetch / check / persist logic, reset
ResetLocals ==
    /\ response_data' = Unbound
    /\ articles_to_store' = <<>>
    /\ inserted_count' = 0
    /\ item' = NoItem
    /\ article' = Unset
    /\ work' = table
    /\ txn' = "none"
    /\ errAt' = -1
    /\ table0' = table

ResetPass == ResetLocals /\ log' = <<>>

\* the script is started with its configuration present
StartRun(s) ==
    /\ pc \in {"IDLE", "EXITED", "CRASHED", "CONFIG_ERROR"}
    /\ runs < MaxRuns
    /\ script' = s
    /\ stage' = "fn"
    /\ pc' = "FETCHING"
    /\ runs' = runs + 1
    /\ fetches' = 0
    /\ sessions' = 0
    /\ exc' = "none"
    /\ ResetPass
    /\ UNCHANGED <<table, tableExists, latest, nullCommitted>>

\* etl.py is started without NEWS_API_KEY: prints the error and exit(1)
StartWithoutKey ==
    /\ pc \in {"IDLE", "EXITED", "CRASHED", "CONFIG_ERROR"}
    /\ runs < MaxRuns
    /\ script' = "etl"
    /\ stage' = "fn"
    /\ pc' = "CONFIG_ERROR"
    /\ runs' = runs + 1
    /\ fetches' = 0
    /\ sessions' = 0
    /\ exc' = "none"
    /\ ResetLocals
    /\ log' = <<"Error: NEWS_API_KEY environment variable not set.">>
    /\ UNCHANGED <<table, tableExists, latest, nullCommitted>>

(***************************************************************************)
(* Fetch: etl.py lines 22-27, de-proj1.py lines 32-37 and 111-115          *)
(***************************************************************************)
\* api.news_api raises: the function prints and returns; the Extract cell
\* prints and falls through with response_data never assigned
FetchRaises ==
    /\ pc = "FETCHING"
    /\ fetches' = fetches + 1
    /\ log' = Append(log, "Failed to fetch data from API")
    /\ pc' = IF stage = "fn" THEN "API_FAILURE" ELSE "FETCHED"
    /\ UNCHANGED <<script, stage, response_data, articles_to_store, inserted_count, item, article, table,
                   tableExists, work, txn, exc, errAt, sessions, runs, table0,
                   latest, nullCommitted>>

FetchReturns(r) ==
    /\ pc = "FETCHING"
    /\ fetches' = fetches + 1
    /\ response_data' = r
    /\ pc' = "FETCHED"
    /\ UNCHANGED <<script, stage, articles_to_store, inserted_count, item, article, table, tableExists,
                   work, txn, log, exc, errAt, sessions, runs, table0, latest,
                   nullCommitted>>

(***************************************************************************)
(* Check of the response: etl.py lines 29-35 and 89-91,                    *)
(* de-proj1.py lines 124-134 and 204-207                                   *)
(***************************************************************************)
\* the cell reads response_data, which no statement assigned: NameError
CheckUnbound ==
    /\ pc = "FETCHED"
    /\ response_data.tag = "unbound"
    /\ pc' = "CRASHED"
    /\ exc' = "NameError"
    /\ UNCHANGED <<script, stage, response_data, articles_to_store, inserted_count, item, article, table,
                   tableExists, work, txn, log, errAt, fetches, sessions, runs,
                   table0, latest, nullCommitted>>

CheckUnsuccessful ==
    /\ pc = "FETCHED"
    /\ response_data.tag # "unbound"
    /\ ~IsSuccess(response_data)
    /\ log' = log \o <<"API request was unsuccessful.", "Error details">>
    /\ pc' = "API_FAILURE"
    /\ UNCHANGED <<script, stage, response_data, articles_to_store, inserted_count, item, article, table,
                   tableExists, work, txn, exc, errAt, fetches, sessions, runs,
                   table0, latest, nullCommitted>>

\* the function returns on an empty result; the cell only prints and goes on
\* to len(articles_to_store), which raises TypeError when results is None
CheckEmpty ==
    /\ pc = "FETCHED"
    /\ IsSuccess(response_data)
    /\ IsEmpty(ResultsOf(response_data))
    /\ articles_to_store' = ResultsOf(response_data).items
    /\ IF stage = "fn"
       THEN /\ log' = Append(log, "No articles found to store.")
            /\ pc' = "EMPTY_RESULT"
            /\ exc' = exc
       ELSE IF ResultsOf(response_data).t = "none"
       THEN /\ log' = Append(log, "No articles found to store.")
            /\ pc' = "CRASHED"
            /\ exc' = "TypeError"
       ELSE /\ log' = log \o <<"No articles found to store.", "Successfully fetched",
                               "--- Storing data in database ---">>
            /\ pc' = "PERSISTING"
            /\ exc' = exc
    /\ UNCHANGED <<script, stage, response_data, inserted_count, item, article, table, tableExists,
                   work, txn, errAt, fetches, sessions, runs, table0, latest,
                   nullCommitted>>

CheckSuccess ==
    /\ pc = "FETCHED"
    /\ IsSuccess(response_data)
    /\ ~IsEmpty(ResultsOf(response_data))
    /\ articles_to_store' = ResultsOf(response_data).items
    /\ log' = IF stage = "fn" THEN Append(log, "Successfully fetched")
              ELSE log \o <<"Successfully fetched", "--- Storing data in database ---">>
    /\ pc' = "PERSISTING"
    /\ UNCHANGED <<script, stage, response_data, inserted_count, item, article, table, tableExists,
                   work, txn, exc, errAt, fetches, sessions, runs, table0, latest,
                   nullCommitted>>

\* `return` after the diagnostic (function), end of the else branch (cell)
Return ==
    /\ pc \in {"API_FAILURE", "EMPTY_RESULT"}
    /\ pc' = "DONE"
    /\ UNCHANGED <<script, stage, response_data, articles_to_store, inserted_count, item, article, table,
                   tableExists, work, txn, log, exc, errAt, fetches, sessions, runs,
                   table0, latest, nullCommitted>>

(***************************************************************************)
(* Persistence: etl.py lines 37-87, de-proj1.py lines 48-95 and 138-201    *)
(***************************************************************************)
\* sqlite3.connect and CREATE TABLE IF NOT EXISTS (a DDL statement, run outside
\* any transaction); either may raise sqlite3.Error, which the except prints
Connect ==
    /\ pc = "PERSISTING"
    /\ sessions' = sessions + 1
    /\ \E fails \in BOOLEAN :
         IF fails
         THEN /\ errAt' = 0
              /\ log' = Append(log, "Database error occurred")
              /\ pc' = "DONE"
              /\ UNCHANGED <<tableExists, work, txn, inserted_count>>
         ELSE /\ tableExists' = TRUE
              /\ work' = table
              /\ txn' = "none"
              /\ inserted_count' = 0
              /\ pc' = "UPSERTING"
              /\ UNCHANGED <<errAt, log>>
    /\ UNCHANGED <<script, stage, response_data, articles_to_store, item, article, table, exc,
                   fetches, runs, table0, latest, nullCommitted>>

\* one pass of the loop whose ", ".join raises TypeError: the connection block
\* rolls back and the exception leaves the script uncaught
UpsertTypeError ==
    /\ pc = "UPSERTING"
    /\ inserted_count < Len(articles_to_store)
    /\ NormalizeRaises(articles_to_store[inserted_count + 1])
    /\ item' = articles_to_store[inserted_count + 1]
    /\ article' = NormalizeResult(articles_to_store[inserted_count + 1])
    /\ txn' = ExitTxn(txn, TRUE, FALSE)
    /\ table' = Durable(table, work, txn')
    /\ work' = table'
    /\ pc' = "CRASHED"
    /\ exc' = "TypeError"
    /\ UNCHANGED <<script, stage, response_data, articles_to_store, inserted_count, tableExists, log, errAt,
                   fetches, sessions, runs, table0, latest, nullCommitted>>

\* one pass of the loop whose INSERT OR REPLACE raises sqlite3.Error (a value
\* that cannot be bound, or the storage failing). cursor.execute has begun the
\* implicit transaction before it binds and runs the statement, so a
\* transaction is open, also at the first article, when the exception leaves
\* the connection block, which rolls it back; the except prints the error
UpsertDbError ==
    /\ pc = "UPSERTING"
    /\ inserted_count < Len(articles_to_store)
    /\ ~NormalizeRaises(articles_to_store[inserted_count + 1])
    /\ \E storageFails \in BOOLEAN :
         BindFails(Normalize(articles_to_store[inserted_count + 1])) \/ storageFails
    /\ item' = articles_to_store[inserted_count + 1]
    /\ article' = NormalizeResult(articles_to_store[inserted_count + 1])
    /\ errAt' = inserted_count + 1
    /\ txn' = ExitTxn("open", TRUE, FALSE)
    /\ table' = Durable(table, work, txn')
    /\ work' = table'
    /\ log' = Append(log, "Database error occurred")
    /\ pc' = "DONE"
    /\ UNCHANGED <<script, stage, response_data, articles_to_store, inserted_count, tableExists, exc, fetches,
                   sessions, runs, table0, latest, nullCommitted>>

\* one pass of the loop: the article is built and upserted in the transaction
\* that the first INSERT begins
UpsertNext ==
    /\ pc = "UPSERTING"
    /\ inserted_count < Len(articles_to_store)
    /\ ~NormalizeRaises(articles_to_store[inserted_count + 1])
    /\ ~BindFails(Normalize(articles_to_store[inserted_count + 1]))
    /\ item' = articles_to_store[inserted_count + 1]
    /\ article' = NormalizeResult(articles_to_store[inserted_count + 1])
    /\ txn' = "open"
    /\ work' = Upsert(work, Normalize(articles_to_store[inserted_count + 1]))
    /\ inserted_count' = inserted_count + 1
    /\ UNCHANGED <<script, stage, pc, response_data, articles_to_store, table, tableExists, log, exc,
                   errAt, fetches, sessions, runs, table0, latest, nullCommitted>>

IdsIn(b) == {Get(b[j], "article_id") : j \in 1..Len(b)} \ {None}
LastWith(b, i) ==
    CHOOSE j \in 1..Len(b) :
        /\ Get(b[j], "article_id") = i
        /\ \A k \in (j + 1)..Len(b) : Get(b[k], "article_id") # i
NullIn(b) == Cardinality({j \in 1..Len(b) : Get(b[j], "article_id") = None})

\* the history of committed upserts after the batch b has been committed
LatestAfter(l, b) ==
    [i \in DOMAIN l \cup IdsIn(b) |->
        IF i \in IdsIn(b) THEN Normalize(b[LastWith(b, i)]) ELSE l[i]]

\* the loop is over and the count and the verification header are printed,
\* but the SELECT of the sample raises sqlite3.Error inside the block, or the
\* COMMIT issued on leaving the block does (e.g. database is locked): the
\* transaction is rolled back and the except prints the error
FinishDbError ==
    /\ pc = "UPSERTING"
    /\ inserted_count = Len(articles_to_store)
    /\ \E at \in {"select", "commit"} :
         /\ at = "commit" => txn = "open"
         /\ txn' = ExitTxn(txn, at = "select", at = "commit")
    /\ errAt' = Len(articles_to_store) + 1
    /\ table' = Durable(table, work, txn')
    /\ work' = table'
    /\ log' = log \o <<"Successfully inserted/updated",
                       "--- Verifying data by selecting records ---",
                       "Database error occurred">>
    /\ pc' = "DONE"
    /\ UNCHANGED <<script, stage, response_data, articles_to_store, inserted_count, item,
                   article, tableExists, exc, fetches, sessions, runs, table0, latest,
                   nullCommitted>>

\* the loop is over: the count and the verification sample are printed and
\* the connection block commits
Finish ==
    /\ pc = "UPSERTING"
    /\ inserted_count = Len(articles_to_store)
    /\ log' = log \o <<"Successfully inserted/updated",
                       "--- Verifying data by selecting records ---">>
    /\ txn' = ExitTxn(txn, FALSE, FALSE)
    /\ table' = Durable(table, work, txn')
    /\ work' = table'
    /\ latest' = IF txn' = "committed" THEN LatestAfter(latest, articles_to_store) ELSE latest
    /\ nullCommitted' = IF txn' = "committed" THEN nullCommitted + NullIn(articles_to_store)
                        ELSE nullCommitted
    /\ pc' = "DONE"
    /\ UNCHANGED <<script, stage, response_data, articles_to_store, inserted_count, item, article, tableExists,
                   exc, errAt, fetches, sessions, runs, table0>>

(***************************************************************************)
(* Script level: de-proj1.py lines 101-111, end of either script           *)
(***************************************************************************)
\* de-proj1.py: fetch_and_store_articles() has returned under the __main__
\* guard and the script goes on into the Extract cell
Advance ==
    /\ pc = "DONE"
    /\ script = "deproj"
    /\ stage = "fn"
    /\ stage' = "cells"
    /\ pc' = "FETCHING"
    /\ ResetPass
    /\ UNCHANGED <<script, table, tableExists, exc, fetches, sessions, runs, latest,
                   nullCommitted>>

\* the script ends normally
Exit ==
    /\ pc = "DONE"
    /\ script = "etl" \/ stage = "cells"
    /\ pc' = "EXITED"
    /\ ResetPass
    /\ UNCHANGED <<script, stage, table, tableExists, exc, fetches, sessions, runs,
                   latest, nullCommitted>>

Next ==
    \/ \E s \in Scripts : StartRun(s)
    \/ StartWithoutKey
    \/ FetchRaises
    \/ \E r \in Responses : FetchReturns(r)
    \/ CheckUnbound
    \/ CheckUnsuccessful
    \/ CheckEmpty
    \/ CheckSuccess
    \/ Return
    \/ Connect
    \/ UpsertTypeError
    \/ UpsertDbError
    \/ UpsertNext
    \/ FinishDbError
    \/ Finish
    \/ Advance
    \/ Exit

Spec == Init /\ [][Next]_vars

(***************************************************************************)
(* The normaliser on its own: one raw article in, one article out          *)
(***************************************************************************)
MaxCreators == 2

CreatorLists == {List(q) : q \in SeqsUpTo({Str("X"), Str("Y")}, MaxCreators)}

CreatorValues ==
    {Absent, None, Str("X"), Str(""), Dict, List(<<Str("X"), None>>)} \cup CreatorLists

RawArticles ==
    {Mapping(f) : f \in [article_id  : {Absent, Str("a1")},
                         title       : {Absent, None, Str("T")},
                         creator     : CreatorValues,
                         content     : {Absent, Str("body")},
                         source_name : {Absent, Str("S")},
                         pubDate     : {Absent, Str("2024-01-01")}]}

InitNorm ==
    /\ script = "none"
    /\ stage = "fn"
    /\ pc = "NORMALIZING"
    /\ response_data = Unbound
    /\ articles_to_store = <<>>
    /\ inserted_count = 0
    /\ item \in RawArticles
    /\ article = Unset
    /\ table = EmptyBag
    /\ tableExists = FALSE
    /\ work = EmptyBag
    /\ txn = "none"
    /\ log = <<>>
    /\ exc = "none"
    /\ errAt = -1
    /\ fetches = 0
    /\ sessions = 0
    /\ runs = 0
    /\ table0 = EmptyBag
    /\ latest = [i \in {} |-> None]
    /\ nullCommitted = 0

\* lines 55-67 applied to item
NormalizeItem ==
    /\ pc = "NORMALIZING"
    /\ article' = NormalizeResult(item)
    /\ pc' = "NORMALIZED"
    /\ UNCHANGED <<script, stage, response_data, articles_to_store, inserted_count, item, table, tableExists,
                   work, txn, log, exc, errAt, fetches, sessions, runs, table0,
                   latest, nullCommitted>>

NextNorm == NormalizeItem

SpecNorm == InitNorm /\ [][NextNorm]_vars

(***************************************************************************)
(* Properties                                                              *)
(***************************************************************************)
Printed(line) == \E i \in 1..Len(log) : log[i] = line

\* the upserts that this pass has executed: articles 1..pos of the batch
ExecutedIds == {articles_to_store[j].article_id : j \in {k \in 1..inserted_count : "article_id" \in DOMAIN articles_to_store[k]}}
LastExecuted(i) ==
    CHOOSE j \in 1..inserted_count :
        /\ "article_id" \in DOMAIN articles_to_store[j] /\ articles_to_store[j].article_id = i
        /\ \A k \in (j + 1)..inserted_count :
               ~("article_id" \in DOMAIN articles_to_store[k] /\ articles_to_store[k].article_id = i)
ExecutedNull == Cardinality({j \in 1..inserted_count : "article_id" \notin DOMAIN articles_to_store[j]})

\* C1, as stated: when a pass is over, every id it upserted has exactly one
\* row in the table, holding the values of the last upsert of that id
C1_Original ==
    pc = "DONE" =>
        \A i \in ExecutedIds :
            /\ Cardinality({r \in DOMAIN table : r.id = i}) = 1
            /\ \A r \in DOMAIN table :
                   r.id = i => /\ table[r] = 1
                               /\ r.title = Get(articles_to_store[LastExecuted(i)], "title")
                               /\ r.body = Get(articles_to_store[LastExecuted(i)], "content")

\* C1, amended: in every state the table holds exactly one row for each id of
\* a committed upsert, equal to the last committed upsert of that id, and no
\* row with any other non-NULL id
C1_LastWriteWins ==
    /\ \A i \in DOMAIN latest :
           /\ Cardinality({r \in DOMAIN table : r.id = i}) = 1
           /\ \A r \in DOMAIN table : r.id = i => r = latest[i] /\ table[r] = 1
    /\ \A r \in DOMAIN table : r.id # None => r.id \in DOMAIN latest

C1_Witness ==
    /\ pc = "DONE"
    /\ txn = "committed"
    /\ inserted_count = 2
    /\ articles_to_store[1] = P1
    /\ articles_to_store[2] = P2
    /\ \E r \in DOMAIN table : r.id = Str("a1") /\ r.title = Str("T2") /\ r.author = Str("Z")

\* the fetch of this pass raised, or returned a response that is None or whose
\* status is not "success", and the check of that response is over
FetchFailed ==
    \/ /\ pc \in {"API_FAILURE", "EMPTY_RESULT", "PERSISTING", "UPSERTING", "DONE", "CRASHED"}
       /\ response_data.tag \in {"unbound", "none"} \/ response_data.status # Str("success")
    \/ pc = "FETCHED" /\ response_data.tag = "unbound"

\* C2: after a failed fetch the pass writes no row (the table is the one the
\* pass began with), an error line has been printed, and
\* fetch_and_store_articles opens no session and ends in API_FAILURE / DONE
C2_ApiFailureWritesNothing ==
    FetchFailed =>
        /\ table = table0
        /\ work = table0
        /\ Printed("Failed to fetch data from API") \/ Printed("API request was unsuccessful.")
        /\ stage = "fn" => pc \in {"API_FAILURE", "DONE"} /\ sessions = 0

C2_Witness ==
    /\ pc = "DONE"
    /\ stage = "fn"
    /\ response_data.status = Str("error")
    /\ response_data.results.items = <<P1>>
    /\ table # EmptyBag
    /\ table = table0
    /\ Printed("API request was unsuccessful.")

\* C3, as stated: after a "success" response with empty or missing results
\* the pass is in EMPTY_RESULT or DONE, has opened no storage session, has
\* written nothing and has reported no error, in the function and in the cells
C3_Original ==
    (/\ pc \notin {"FETCHING", "FETCHED"}
     /\ response_data.tag = "dict"
     /\ response_data.status = Str("success")
     /\ response_data.results.t \in {"absent", "none"} \/ response_data.results.items = <<>>)
    => /\ pc \in {"EMPTY_RESULT", "DONE"}
       /\ ~Printed("--- Storing data in database ---")
       /\ ~Printed("Successfully inserted/updated")
       /\ ~Printed("Database error occurred")
       /\ table = table0

\* C4, as stated: after a storage error at the k-th article the error has
\* been printed and the rows upserted for articles 1..k-1 are in the table
C4_Original ==
    (pc = "DONE" /\ errAt \in 1..Len(articles_to_store)) =>
        /\ Printed("Database error occurred")
        /\ \A i \in ExecutedIds :
               \E r \in DOMAIN table :
                   r.id = i /\ r.title = Get(articles_to_store[LastExecuted(i)], "title")
        /\ BagCardinality(table) >= ExecutedNull

\* C4, amended: after a storage error at the k-th article the error has been
\* printed and the transaction, with the upserts of articles 1..k-1, has been
\* rolled back; after any storage error of a pass (at connect, at an upsert,
\* at the verification select or at the commit) the table is the one the pass
\* began with and no transaction is left open
C4_BatchRolledBack ==
    (pc = "DONE" /\ errAt >= 0) =>
        /\ Printed("Database error occurred")
        /\ table = table0
        /\ txn \in {"none", "rolledback"}
        /\ errAt \in 1..Len(articles_to_store) => txn = "rolledback"
        /\ inserted_count >= 1 => txn = "rolledback"

C4_Witness ==
    /\ pc = "DONE"
    /\ errAt = 2
    /\ Len(articles_to_store) = 2
    /\ inserted_count = 1
    /\ articles_to_store[1] = P1
    /\ \A r \in DOMAIN table : r.id # Str("a1")
    /\ txn = "rolledback"

\* C5, as stated: a fetch exception, a non-success status, an empty result or
\* a storage error never ends the process with an uncaught exception
C5_Original ==
    (\/ response_data.tag \in {"unbound", "none"} /\ pc \notin {"IDLE", "FETCHING", "EXITED", "CONFIG_ERROR"}
     \/ response_data.tag = "dict" /\ response_data.status # Str("success")
     \/ response_data.tag = "dict" /\ (response_data.results.t # "list" \/ response_data.results.items = <<>>)
     \/ errAt >= 0)
    => pc # "CRASHED" /\ exc = "none"

\* the strings of a list joined left to right with ", " between neighbours
RECURSIVE JoinedInOrder(_, _)
JoinedInOrder(elems, n) ==
    IF n = 0 THEN ""
    ELSE IF n = 1 THEN elems[1][2]
    ELSE JoinedInOrder(elems, n - 1) \o ", " \o elems[n][2]

Passed(key) == IF key \in DOMAIN item THEN item[key] ELSE <<"null">>

\* C6: the author is the creator strings joined with ", " in their order when
\* creator is a list of strings, the creator value itself when it is not a
\* list (null when absent), and the other five fields are the raw values
\* under their source keys (null when absent)
C6_Normalized ==
    pc = "NORMALIZED" =>
        LET c == Passed("creator")
            strings == c[1] = "list" /\ \A i \in 2..Len(c) : c[i][1] = "str"
        IN  /\ (c[1] # "list" \/ strings) => article[1] = "ok"
            /\ article[1] = "ok" =>
                   /\ strings =>
                          article[2].author = <<"str", JoinedInOrder(Tail(c), Len(c) - 1)>>
                   /\ c[1] # "list" => article[2].author = c
                   /\ article[2].id = Passed("article_id")
                   /\ article[2].title = Passed("title")
                   /\ article[2].body = Passed("content")
                   /\ article[2].source = Passed("source_name")
                   /\ article[2].published_at = Passed("pubDate")

C6_Witness ==
    /\ pc = "NORMALIZED"
    /\ "creator" \in DOMAIN item
    /\ item.creator = <<"list", <<"str", "X">>, <<"str", "Y">>>>
    /\ "pubDate" \notin DOMAIN item
    /\ article[1] = "ok"
    /\ article[2].author = <<"str", "X, Y">>
    /\ article[2].published_at = <<"null">>

\* C7: no step removes a committed id, and the number of committed rows with
\* a NULL id never decreases
C7_RowsNeverDeleted ==
    [][/\ \A r \in DOMAIN table : r.id # None => \E q \in DOMAIN table' : q.id = r.id
       /\ NullRows(table) <= NullRows(table')]_vars

C7_Witness ==
    /\ pc = "DONE"
    /\ table0 # EmptyBag
    /\ table # table0
    /\ \E r \in DOMAIN table0 : r \notin DOMAIN table

\* C8, as stated: a process issues one fetch call and opens at most one
\* storage session
C8_Original == fetches <= 1 /\ sessions <= 1

\* C9: a transaction is open only inside the upsert loop: wherever the
\* connection block has been left (normally, by a caught storage error or by
\* any other exception) it is committed or rolled back and the connection sees
\* the committed rows; a pass opens at most one session
C9_TransactionReleased ==
    /\ pc # "UPSERTING" => txn # "open" /\ work = table
    /\ sessions <= (IF stage = "fn" THEN 1 ELSE 2)
    /\ pc \in {"DONE", "CRASHED"} /\ inserted_count >= 1 => txn \in {"committed", "rolledback"}

C9_Witness ==
    /\ pc = "CRASHED"
    /\ exc = "TypeError"
    /\ inserted_count = 1
    /\ txn = "rolledback"

\* C10, as stated: when a pass is over, each of its upserts of an article
\* without article_id has added one row with a NULL id to the table
C10_Original ==
    pc = "DONE" => NullRows(table) = NullRows(table0) + ExecutedNull

\* C10, amended: an upsert with a NULL id adds a row to what the connection
\* sees and replaces none, and the table holds as many rows with a NULL id as
\* upserts with a NULL id were committed
C10_NullIdsAccumulate ==
    /\ NullRows(table) = nullCommitted
    /\ pc = "UPSERTING" => NullRows(work) = NullRows(table) + ExecutedNull
    /\ pc = "DONE" /\ txn = "committed" => NullRows(table) = NullRows(table0) + ExecutedNull

C10_Witness ==
    /\ pc = "DONE"
    /\ txn = "committed"
    /\ ExecutedNull = 2
    /\ NullRows(table0) >= 1
    /\ NullRows(table) = NullRows(table0) + 2

====
